---- MODULE Spec2Model ----
(***************************************************************************)
(* Model of the accounting SDK client core (syft_accounting_sdk/core.py):  *)
(* AdminClient, UserClient and the transaction lifecycle controllers       *)
(* TransactionCtx / DelegatedTransactionCtx, together with the HTTP        *)
(* transport and the remote accounting service they talk to.               *)
(***************************************************************************)
EXTENDS Integers, Sequences, FiniteSets, TLC

\* ------------------------------------------------------------------ bounds
MaxCtx == 1
MaxTx == 2
MaxCalls == 4

\* ------------------------------------------------------------ input domains
Amounts == {0 - 1, 0, 1}
\* the amounts a controller is constructed with
CtxAmounts == {0, 1}
Emails == {"bob"}
Tokens == {"tok"}
OwnEmail == "me"
Excs == {"None", "BodyError"}

\* -------------------------------------------------------------- data model
TransactionStatus == {"PENDING", "COMPLETED", "CANCELLED"}
CreatorType == {"SYSTEM", "SENDER", "RECIPIENT"}

\* pydantic validation of the User model
User(u) == u.email # "" /\ u.balance >= 0

\* Optional[Transaction] = None
NoneTx ==
  [id |-> 0, senderEmail |-> "", recipientEmail |-> "", createdBy |-> "",
   resolvedBy |-> "None", amount |-> 0, status |-> ""]

\* the Transaction model with status declared as a plain string
Transaction_AnyStatus(t) ==
  /\ t.id # 0
  /\ t.createdBy \in CreatorType
  /\ t.resolvedBy \in CreatorType \cup {"None"}
  /\ t.amount > 0

\* pydantic validation of the Transaction model
Transaction(t) ==
  /\ t.id # 0
  /\ t.createdBy \in CreatorType
  /\ t.resolvedBy \in CreatorType \cup {"None"}
  /\ t.amount > 0
  /\ t.status \in TransactionStatus

\* User snapshots; Optional[str] password None is the string "None"
NoneUser == [id |-> "", email |-> "", balance |-> 0]
UserOf(email) == [id |-> email, email |-> email, balance |-> 0]
Passwords == {"None", "", "pw"}
GeneratedPassword == "generated"
AbsentPassword == "<absent>"
Formats == {"list", "dict", "json"}

\* A response body: fmt says whether it parses as JSON, key is the top-level
\* key it carries, the other fields are the values under that key.
NoBody ==
  [fmt |-> "none", key |-> "", transaction |-> NoneTx, user |-> NoneUser,
   users |-> << >>, transactions |-> << >>, token |-> "",
   password |-> AbsentPassword, msg |-> ""]

\* ------------------------------------------------------------------ errors
MkErr(type, code, body) == [type |-> type, status_code |-> code, body |-> body]
NoErr == MkErr("None", 0, NoBody)
ServiceException(status_code, body) == MkErr("ServiceException", status_code, body)
ValueError == MkErr("ValueError", 0, NoBody)
RuntimeError == MkErr("RuntimeError", 0, [NoBody EXCEPT !.msg = "No transaction to confirm."])
JSONDecodeError == MkErr("JSONDecodeError", 0, NoBody)
KeyError == MkErr("KeyError", 0, NoBody)
ValidationError == MkErr("pydantic.ValidationError", 0, NoBody)
ConnectionError == MkErr("ConnectionError", 0, NoBody)
Timeout == MkErr("Timeout", 0, NoBody)
BodyError == MkErr("BodyError", 0, NoBody)
TransportErrors == {ConnectionError, Timeout}
FailedCancelBody ==
  [NoBody EXCEPT !.fmt = "json", !.key = "message",
                 !.msg = "Failed to cancel transaction"]

\* --------------------------------------------------------------- variables
VARIABLES
  ctx,    \* the lifecycle controllers constructed so far (their fields)
  srv,    \* the remote service's transactions, indexed by id
  h,      \* per controller: history of the calls made on it
  last    \* the most recent call: its requests, its result, what it raised

vars == <<ctx, srv, h, last>>

\* ---------------------------------------------------------------- requests
NoReq ==
  [method |-> "", path |-> "", senderEmail |-> "", recipientEmail |-> "",
   amount |-> 0, token |-> "None", transactionId |-> 0, email |-> "",
   password |-> "None"]
Post(path) == [NoReq EXCEPT !.method = "POST", !.path = path]
Get(path) == [NoReq EXCEPT !.method = "GET", !.path = path]

\* --------------------------------------------------------------- responses
MkResponse(status_code, body) == [status_code |-> status_code, body |-> body]
NoResponse == MkResponse(0, NoBody)
\* requests.Response.ok: the status is not a 4xx/5xx
ok(response) == response.status_code < 400
JsonBody(key) == [NoBody EXCEPT !.fmt = "json", !.key = key]
\* a rejection with a structured body, and an error page that is not JSON
Rejections ==
  {MkResponse(404, [JsonBody("error") EXCEPT !.msg = "rejected"]),
   MkResponse(502, [NoBody EXCEPT !.fmt = "text", !.msg = "<html>Bad Gateway</html>"])}

\* ---------------------------------------------------------- remote service
ResolvedBy(t) == IF t.senderEmail = OwnEmail THEN "SENDER" ELSE "RECIPIENT"

Resolve(id, status) ==
  IF id \in 1..Len(srv) /\ srv[id].status = "PENDING"
  THEN LET t == [srv[id] EXCEPT !.status = status, !.resolvedBy = ResolvedBy(srv[id])]
       IN {[srv2 |-> [srv EXCEPT ![id] = t],
            body |-> [JsonBody("transaction") EXCEPT !.transaction = t]]}
  ELSE {}

UserLists ==
  {<< >>, <<UserOf("bob")>>, <<UserOf("bob"), UserOf("carol")>>,
   <<UserOf("bob"), [UserOf("bob") EXCEPT !.id = "bob2"]>>}

\* The requests the service accepts in its current state, each with the
\* service's next state and the success body it answers with.
Accepts(req) ==
  CASE req.path = "/transaction/create" ->
         IF Len(srv) < MaxTx
         THEN LET t == [id |-> Len(srv) + 1,
                        senderEmail |-> req.senderEmail,
                        recipientEmail |-> req.recipientEmail,
                        createdBy |-> IF req.token = "None" THEN "SENDER" ELSE "RECIPIENT",
                        resolvedBy |-> "None",
                        amount |-> req.amount,
                        status |-> "PENDING"]
              IN {[srv2 |-> Append(srv, t),
                   body |-> [JsonBody("transaction") EXCEPT !.transaction = t]]}
         ELSE {}
    [] req.path = "/transaction/confirm" -> Resolve(req.transactionId, "COMPLETED")
    [] req.path = "/transaction/cancel" -> Resolve(req.transactionId, "CANCELLED")
    [] req.path = "/transaction/history" ->
         {[srv2 |-> srv, body |-> [JsonBody("transactions") EXCEPT !.transactions = srv]]}
    [] req.path = "/user/create" ->
         {[srv2 |-> srv,
           body |-> [JsonBody("user") EXCEPT !.user = UserOf(req.email), !.password = p]] :
            p \in {GeneratedPassword, AbsentPassword}}
    [] req.path = "/users" ->
         {[srv2 |-> srv, body |-> [JsonBody("users") EXCEPT !.users = us]] : us \in UserLists}
    [] req.path = "/token/create" ->
         {[srv2 |-> srv, body |-> [JsonBody("token") EXCEPT !.token = t]] : t \in Tokens}
    [] OTHER ->
         {[srv2 |-> srv,
           body |-> [JsonBody("user") EXCEPT
                       !.user = UserOf(IF req.email = "" THEN OwnEmail ELSE req.email)]]}

\* What can arrive instead of the body the service sent: the body itself,
\* a body that is not JSON, JSON without the expected key, and JSON whose
\* record does not validate.
Delivered(body) ==
  {body, [body EXCEPT !.fmt = "text"], [body EXCEPT !.key = "other"]}
  \cup (IF body.key = "transaction"
        THEN {[body EXCEPT !.transaction.status = "BOGUS"]} ELSE {})
  \cup (IF body.key = "user"
        THEN {[body EXCEPT !.user.balance = 0 - 1]} ELSE {})

\* ---------------------------------------------------------------- transport
\* One blocking request: the transport fails before the service sees the
\* request, the service rejects it, or the service accepts it and the
\* response is lost or delivered.
Exchange(req) ==
  {[srv2 |-> srv, fail |-> ConnectionError, response |-> NoResponse]}
  \cup {[srv2 |-> srv, fail |-> NoErr, response |-> r] : r \in Rejections}
  \cup UNION {
        {[srv2 |-> a.srv2, fail |-> Timeout, response |-> NoResponse]}
        \cup {[srv2 |-> a.srv2, fail |-> NoErr, response |-> MkResponse(200, b)] :
               b \in Delivered(a.body)} : a \in Accepts(req)}


\* ------------------------------------------------------- results of a call
NoRet ==
  [kind |-> "None", transaction |-> NoneTx, user |-> NoneUser, users |-> << >>,
   dict |-> << >>, transactions |-> << >>, token |-> "", password |-> ""]
\* no request was made
NoExchange == [srv2 |-> srv, fail |-> NoErr, response |-> NoResponse]
\* a call that raised err after issuing reqs, which the exchange x answered
Raised(reqs, x, err) ==
  [reqs |-> reqs, srv2 |-> x.srv2, fail |-> x.fail, response |-> x.response,
   err |-> err, ret |-> NoRet]
\* a call that returned ret
Returned(reqs, x, ret) ==
  [reqs |-> reqs, srv2 |-> x.srv2, fail |-> x.fail, response |-> x.response,
   err |-> NoErr, ret |-> ret]

\* NotOk with the status code lost: every rejection reported as a 500
NotOk_FixedStatus(response) ==
  IF response.body.fmt # "json" THEN JSONDecodeError
  ELSE ServiceException(500, response.body)

\* raise ServiceException(response.status_code, response.json())
NotOk(response) ==
  IF response.body.fmt # "json" THEN JSONDecodeError
  ELSE ServiceException(response.status_code, response.body)

\* return Transaction(**response.json()["transaction"])
ReturnTransaction(reqs, x) ==
  IF x.response.body.fmt # "json" THEN Raised(reqs, x, JSONDecodeError)
  ELSE IF x.response.body.key # "transaction" THEN Raised(reqs, x, KeyError)
  ELSE IF ~Transaction(x.response.body.transaction) THEN Raised(reqs, x, ValidationError)
  ELSE Returned(reqs, x, [NoRet EXCEPT !.kind = "Transaction",
                                          !.transaction = x.response.body.transaction])

\* return User(**response.json()["user"])
ReturnUser(reqs, x) ==
  IF x.response.body.fmt # "json" THEN Raised(reqs, x, JSONDecodeError)
  ELSE IF x.response.body.key # "user" THEN Raised(reqs, x, KeyError)
  ELSE IF ~User(x.response.body.user) THEN Raised(reqs, x, ValidationError)
  ELSE Returned(reqs, x, [NoRet EXCEPT !.kind = "User", !.user = x.response.body.user])

\* data = response.json(); return User(**data["user"]), password or data["password"]
ReturnUserPassword(reqs, x, password) ==
  IF x.response.body.fmt # "json" THEN Raised(reqs, x, JSONDecodeError)
  ELSE IF x.response.body.key # "user" THEN Raised(reqs, x, KeyError)
  ELSE IF ~User(x.response.body.user) THEN Raised(reqs, x, ValidationError)
  ELSE IF password \notin {"None", ""}
       THEN Returned(reqs, x, [NoRet EXCEPT !.kind = "UserPassword",
                                               !.user = x.response.body.user,
                                               !.password = password])
  ELSE IF x.response.body.password = AbsentPassword THEN Raised(reqs, x, KeyError)
  ELSE Returned(reqs, x, [NoRet EXCEPT !.kind = "UserPassword",
                                          !.user = x.response.body.user,
                                          !.password = x.response.body.password])

\* the mapping keyed by user.id instead of user.email
DictOf_ById(users) ==
  [e \in {users[i].id : i \in DOMAIN users} |->
     users[CHOOSE i \in DOMAIN users :
             /\ users[i].id = e
             /\ \A j \in DOMAIN users : users[j].id = e => j <= i]]

\* {user.email: user for user in users}: a later user replaces an earlier one
DictOf(users) ==
  [e \in {users[i].email : i \in DOMAIN users} |->
     users[CHOOSE i \in DOMAIN users :
             /\ users[i].email = e
             /\ \A j \in DOMAIN users : users[j].email = e => j <= i]]

\* -------------------------------------------------------------- AdminClient
AdminClient_create_user(email, password) ==
  LET req == [Post("/user/create") EXCEPT !.email = email, !.password = password]
  IN {IF x.fail # NoErr THEN Raised(<<req>>, x, x.fail)
      ELSE IF ~ok(x.response) THEN Raised(<<req>>, x, NotOk(x.response))
      ELSE ReturnUserPassword(<<req>>, x, password) : x \in Exchange(req)}

\* add_balance with the check written as amount < 0
add_balance_Strict(email, amount) ==
  IF amount < 0 THEN {Raised(<< >>, NoExchange, ValueError)}
  ELSE LET req == [Post("/user/add-balance") EXCEPT
                     !.recipientEmail = email, !.amount = amount]
       IN {IF x.fail # NoErr THEN Raised(<<req>>, x, x.fail)
           ELSE IF ~ok(x.response) THEN Raised(<<req>>, x, NotOk(x.response))
           ELSE ReturnUser(<<req>>, x) : x \in Exchange(req)}

add_balance(email, amount) ==
  IF amount <= 0 THEN {Raised(<< >>, NoExchange, ValueError)}
  ELSE LET req == [Post("/user/add-balance") EXCEPT
                     !.recipientEmail = email, !.amount = amount]
       IN {IF x.fail # NoErr THEN Raised(<<req>>, x, x.fail)
           ELSE IF ~ok(x.response) THEN Raised(<<req>>, x, NotOk(x.response))
           ELSE ReturnUser(<<req>>, x) : x \in Exchange(req)}

get_user(email) ==
  LET req == [Get("/user/{email}") EXCEPT !.email = email]
  IN {IF x.fail # NoErr THEN Raised(<<req>>, x, x.fail)
      ELSE IF ~ok(x.response) THEN Raised(<<req>>, x, NotOk(x.response))
      ELSE ReturnUser(<<req>>, x) : x \in Exchange(req)}

get_all_users(format) ==
  LET req == Get("/users")
  IN {IF x.fail # NoErr THEN Raised(<<req>>, x, x.fail)
      ELSE IF ~ok(x.response) THEN Raised(<<req>>, x, NotOk(x.response))
      ELSE IF x.response.body.fmt # "json" THEN Raised(<<req>>, x, JSONDecodeError)
      ELSE IF x.response.body.key # "users" THEN Raised(<<req>>, x, KeyError)
      ELSE IF \E i \in DOMAIN x.response.body.users : ~User(x.response.body.users[i])
           THEN Raised(<<req>>, x, ValidationError)
      ELSE IF format = "list"
           THEN Returned(<<req>>, x, [NoRet EXCEPT !.kind = "list",
                                                        !.users = x.response.body.users])
      ELSE Returned(<<req>>, x, [NoRet EXCEPT !.kind = "dict",
                                                   !.dict = DictOf(x.response.body.users)]) :
        x \in Exchange(req)}

\* -------------------------------------------------------------- UserClient
UserClient_create_user(email, password) ==
  LET req == [Post("/user/create") EXCEPT !.email = email, !.password = password]
  IN {IF x.fail # NoErr THEN Raised(<<req>>, x, x.fail)
      ELSE IF ~ok(x.response) THEN Raised(<<req>>, x, NotOk(x.response))
      ELSE ReturnUserPassword(<<req>>, x, password) : x \in Exchange(req)}

get_user_info ==
  LET req == Get("/user/my-info")
  IN {IF x.fail # NoErr THEN Raised(<<req>>, x, x.fail)
      ELSE IF ~ok(x.response) THEN Raised(<<req>>, x, NotOk(x.response))
      ELSE ReturnUser(<<req>>, x) : x \in Exchange(req)}

create_transaction_token(recipientEmail) ==
  LET req == [Post("/token/create") EXCEPT !.recipientEmail = recipientEmail]
  IN {IF x.fail # NoErr THEN Raised(<<req>>, x, x.fail)
      ELSE IF ~ok(x.response) THEN Raised(<<req>>, x, NotOk(x.response))
      ELSE IF x.response.body.fmt # "json" THEN Raised(<<req>>, x, JSONDecodeError)
      ELSE IF x.response.body.key # "token" THEN Raised(<<req>>, x, KeyError)
      ELSE Returned(<<req>>, x, [NoRet EXCEPT !.kind = "token",
                                                   !.token = x.response.body.token]) :
        x \in Exchange(req)}

get_transaction_history ==
  LET req == Get("/transaction/history")
  IN {IF x.fail # NoErr THEN Raised(<<req>>, x, x.fail)
      ELSE IF ~ok(x.response) THEN Raised(<<req>>, x, NotOk(x.response))
      ELSE IF x.response.body.fmt # "json" THEN Raised(<<req>>, x, JSONDecodeError)
      ELSE IF x.response.body.key # "transactions" THEN Raised(<<req>>, x, KeyError)
      ELSE IF \E i \in DOMAIN x.response.body.transactions :
                ~Transaction(x.response.body.transactions[i])
           THEN Raised(<<req>>, x, ValidationError)
      ELSE Returned(<<req>>, x,
                    [NoRet EXCEPT !.kind = "transactions",
                                  !.transactions = x.response.body.transactions]) :
        x \in Exchange(req)}

create_transaction(recipientEmail, amount) ==
  IF amount <= 0 THEN {Raised(<< >>, NoExchange, ValueError)}
  ELSE LET req == [Post("/transaction/create") EXCEPT
                     !.senderEmail = OwnEmail,
                     !.recipientEmail = recipientEmail,
                     !.amount = amount]
       IN {IF x.fail # NoErr THEN Raised(<<req>>, x, x.fail)
           ELSE IF ~ok(x.response) THEN Raised(<<req>>, x, NotOk(x.response))
           ELSE ReturnTransaction(<<req>>, x) : x \in Exchange(req)}

\* create_delegated_transaction with the two parties the wrong way round
create_delegated_transaction_Swapped(senderEmail, amount, token) ==
  IF amount <= 0 THEN {Raised(<< >>, NoExchange, ValueError)}
  ELSE LET req == [Post("/transaction/create") EXCEPT
                     !.senderEmail = OwnEmail,
                     !.recipientEmail = senderEmail,
                     !.amount = amount,
                     !.token = token]
       IN {IF x.fail # NoErr THEN Raised(<<req>>, x, x.fail)
           ELSE IF ~ok(x.response) THEN Raised(<<req>>, x, NotOk(x.response))
           ELSE ReturnTransaction(<<req>>, x) : x \in Exchange(req)}

create_delegated_transaction(senderEmail, amount, token) ==
  IF amount <= 0 THEN {Raised(<< >>, NoExchange, ValueError)}
  ELSE LET req == [Post("/transaction/create") EXCEPT
                     !.senderEmail = senderEmail,
                     !.recipientEmail = OwnEmail,
                     !.amount = amount,
                     !.token = token]
       IN {IF x.fail # NoErr THEN Raised(<<req>>, x, x.fail)
           ELSE IF ~ok(x.response) THEN Raised(<<req>>, x, NotOk(x.response))
           ELSE ReturnTransaction(<<req>>, x) : x \in Exchange(req)}

\* confirm_transaction with transport failures caught and wrapped
confirm_transaction_Wrapping(id) ==
  LET req == [Post("/transaction/confirm") EXCEPT !.transactionId = id]
  IN {IF x.fail # NoErr THEN Raised(<<req>>, x, ServiceException(500, FailedCancelBody))
      ELSE IF ~ok(x.response) THEN Raised(<<req>>, x, NotOk(x.response))
      ELSE ReturnTransaction(<<req>>, x) : x \in Exchange(req)}

confirm_transaction(id) ==
  LET req == [Post("/transaction/confirm") EXCEPT !.transactionId = id]
  IN {IF x.fail # NoErr THEN Raised(<<req>>, x, x.fail)
      ELSE IF ~ok(x.response) THEN Raised(<<req>>, x, NotOk(x.response))
      ELSE ReturnTransaction(<<req>>, x) : x \in Exchange(req)}

\* cancel_transaction that sends the request a second time when the transport
\* failed
cancel_transaction_Retrying(id) ==
  LET req == [Post("/transaction/cancel") EXCEPT !.transactionId = id]
  IN {IF x.fail # NoErr THEN Raised(<<req, req>>, x, x.fail)
      ELSE IF ~ok(x.response) THEN Raised(<<req>>, x, NotOk(x.response))
      ELSE ReturnTransaction(<<req>>, x) : x \in Exchange(req)}

cancel_transaction(id) ==
  LET req == [Post("/transaction/cancel") EXCEPT !.transactionId = id]
  IN {IF x.fail # NoErr THEN Raised(<<req>>, x, x.fail)
      ELSE IF ~ok(x.response) THEN Raised(<<req>>, x, NotOk(x.response))
      ELSE ReturnTransaction(<<req>>, x) : x \in Exchange(req)}

\* ---------------------------------------------------- lifecycle controller
\* TransactionCtx.__init__ / DelegatedTransactionCtx.__init__
TransactionCtx(email, amount) ==
  [kind |-> "TransactionCtx", email |-> email, amount |-> amount, token |-> "None",
   transaction |-> NoneTx, confirmed |-> FALSE]
DelegatedTransactionCtx(email, amount, token) ==
  [TransactionCtx(email, amount) EXCEPT !.kind = "DelegatedTransactionCtx", !.token = token]

\* The outcome of a controller method: the controller afterwards, what the
\* method raised, and the requests and service state of the call it made.
Outcome(self, r, err) ==
  [self |-> self, reqs |-> r.reqs, srv2 |-> r.srv2, fail |-> r.fail,
   response |-> r.response, inner |-> r.err, err |-> err]
NoCall == Raised(<< >>, NoExchange, NoErr)

\* __enter__ with the try/except of __exit__ around the creation call
TransactionCtx__enter__Wrapping(self) ==
  {IF r.err # NoErr
   THEN Outcome(self, r, IF r.reqs = << >> THEN r.err
                         ELSE ServiceException(500, FailedCancelBody))
   ELSE Outcome([self EXCEPT !.transaction = r.ret.transaction], r, NoErr) :
     r \in create_transaction(self.email, self.amount)}

TransactionCtx__enter__(self) ==
  {IF r.err # NoErr THEN Outcome(self, r, r.err)
   ELSE Outcome([self EXCEPT !.transaction = r.ret.transaction], r, NoErr) :
     r \in create_transaction(self.email, self.amount)}

\* DelegatedTransactionCtx without its own __enter__: the inherited one runs
DelegatedTransactionCtx__enter__Inherited(self) ==
  {IF r.err # NoErr THEN Outcome(self, r, r.err)
   ELSE Outcome([self EXCEPT !.transaction = r.ret.transaction], r, NoErr) :
     r \in create_transaction(self.email, self.amount)}

DelegatedTransactionCtx__enter__(self) ==
  {IF r.err # NoErr THEN Outcome(self, r, r.err)
   ELSE Outcome([self EXCEPT !.transaction = r.ret.transaction], r, NoErr) :
     r \in create_delegated_transaction(self.email, self.amount, self.token)}

\* method dispatch on the controller's class
enter(self) ==
  IF self.kind = "DelegatedTransactionCtx" THEN DelegatedTransactionCtx__enter__(self)
  ELSE TransactionCtx__enter__(self)

\* confirm without self._confirmed = True
confirm_NoFlag(self) ==
  IF self.transaction = NoneTx THEN {Outcome(self, NoCall, RuntimeError)}
  ELSE {IF r.err # NoErr THEN Outcome(self, r, r.err)
        ELSE Outcome([self EXCEPT !.transaction = r.ret.transaction], r, NoErr) :
          r \in confirm_transaction(self.transaction.id)}

\* confirm without the check for a missing transaction
confirm_NoGuard(self) ==
  {IF r.err # NoErr THEN Outcome(self, r, r.err)
   ELSE Outcome([self EXCEPT !.transaction = r.ret.transaction, !.confirmed = TRUE],
                r, NoErr) :
     r \in confirm_transaction(self.transaction.id)}

\* confirm that marks the stored transaction COMPLETED also when the request
\* failed
confirm_Optimistic(self) ==
  IF self.transaction = NoneTx THEN {Outcome(self, NoCall, RuntimeError)}
  ELSE {IF r.err # NoErr
        THEN Outcome([self EXCEPT !.transaction.status = "COMPLETED"], r, r.err)
        ELSE Outcome([self EXCEPT !.transaction = r.ret.transaction, !.confirmed = TRUE],
                     r, NoErr) :
          r \in confirm_transaction(self.transaction.id)}

\* confirm with self._confirmed = True placed before the confirm_transaction
\* call
confirm_FlagFirst(self) ==
  IF self.transaction = NoneTx THEN {Outcome(self, NoCall, RuntimeError)}
  ELSE {IF r.err # NoErr THEN Outcome([self EXCEPT !.confirmed = TRUE], r, r.err)
        ELSE Outcome([self EXCEPT !.transaction = r.ret.transaction, !.confirmed = TRUE],
                     r, NoErr) :
          r \in confirm_transaction(self.transaction.id)}

confirm(self) ==
  IF self.transaction = NoneTx THEN {Outcome(self, NoCall, RuntimeError)}
  ELSE {IF r.err # NoErr THEN Outcome(self, r, r.err)
        ELSE Outcome([self EXCEPT !.transaction = r.ret.transaction, !.confirmed = TRUE],
                     r, NoErr) :
          r \in confirm_transaction(self.transaction.id)}

\* __exit__ with the confirmed flag tested the wrong way round
TransactionCtx__exit__Inverted(self) ==
  IF self.confirmed /\ self.transaction # NoneTx
  THEN {IF r.err # NoErr
        THEN Outcome(self, r, ServiceException(500, FailedCancelBody))
        ELSE Outcome([self EXCEPT !.transaction = r.ret.transaction], r, NoErr) :
          r \in cancel_transaction(self.transaction.id)}
  ELSE {Outcome(self, NoCall, NoErr)}

\* __exit__ with a failed cancellation swallowed (except Exception: pass)
TransactionCtx__exit__Swallowing(self) ==
  IF ~self.confirmed /\ self.transaction # NoneTx
  THEN {IF r.err # NoErr
        THEN Outcome(self, r, NoErr)
        ELSE Outcome([self EXCEPT !.transaction = r.ret.transaction], r, NoErr) :
          r \in cancel_transaction(self.transaction.id)}
  ELSE {Outcome(self, NoCall, NoErr)}

\* __exit__ calling cancel_transaction without storing what it returns
TransactionCtx__exit__Discarding(self) ==
  IF ~self.confirmed /\ self.transaction # NoneTx
  THEN {IF r.err # NoErr
        THEN Outcome(self, r, ServiceException(500, FailedCancelBody))
        ELSE Outcome(self, r, NoErr) :
          r \in cancel_transaction(self.transaction.id)}
  ELSE {Outcome(self, NoCall, NoErr)}

TransactionCtx__exit__(self) ==
  IF ~self.confirmed /\ self.transaction # NoneTx
  THEN {IF r.err # NoErr
        THEN Outcome(self, r, ServiceException(500, FailedCancelBody))
        ELSE Outcome([self EXCEPT !.transaction = r.ret.transaction], r, NoErr) :
          r \in cancel_transaction(self.transaction.id)}
  ELSE {Outcome(self, NoCall, NoErr)}

\* __exit__ ending with return True
exit_returns_True == TRUE

\* __exit__ returns None, which is falsy: the with statement re-raises the
\* body's exception unless __exit__ itself raised.
exit_returns == FALSE
\* the body's exception winning over the one __exit__ raised
Propagated_BodyWins(exc, raised) ==
  IF exc # NoErr /\ ~exit_returns THEN exc
  ELSE raised

Propagated(exc, raised) ==
  IF raised # NoErr THEN raised
  ELSE IF exc # NoErr /\ ~exit_returns THEN exc
  ELSE NoErr

\* ------------------------------------------------------ history of a call
NoArgs ==
  [email |-> "", amount |-> 0, token |-> "None", id |-> 0, format |-> "",
   password |-> "None"]
NoCtx == TransactionCtx("", 0)

\* the record kept of the most recent call
Last(op, c, args, pre, exc, r, inner, ret) ==
  [op |-> op, c |-> c, args |-> args, pre |-> pre, exc |-> exc, reqs |-> r.reqs,
   fail |-> r.fail, response |-> r.response, inner |-> inner, err |-> r.err,
   prop |-> Propagated(exc, r.err), ret |-> ret]

\* the history kept of one controller
NoHist ==
  [calls |-> 0, enters |-> 0, acq |-> NoneTx, made |-> 0,
   raised |-> FALSE, confirmCalled |-> FALSE, confRet |-> NoneTx, exited |-> FALSE,
   owed |-> {}]

\* the transactions that the requests reqs ask to confirm or to cancel
AskedIn(reqs) ==
  {reqs[i].transactionId :
     i \in {j \in DOMAIN reqs :
              reqs[j].path \in {"/transaction/confirm", "/transaction/cancel"}}}

ExcOf(e) == IF e = "None" THEN NoErr ELSE BodyError

\* the number of calls made so far on the controllers
RECURSIVE CallsUpTo(_)
CallsUpTo(n) == IF n = 0 THEN 0 ELSE h[n].calls + CallsUpTo(n - 1)
Calls == CallsUpTo(Len(h))

\* ------------------------------------------------------------------- Init
Init ==
  /\ ctx = << >>
  /\ srv = << >>
  /\ h = << >>
  /\ last = Last("init", 0, NoArgs, NoCtx, NoErr, NoCall, NoErr, NoRet)

\* ---------------------------------------------------------------- actions
\* UserClient.transfer
Transfer(email, amount) ==
  /\ Len(ctx) < MaxCtx
  /\ ctx' = Append(ctx, TransactionCtx(email, amount))
  /\ h' = Append(h, NoHist)
  /\ last' = Last("transfer", Len(ctx) + 1,
                  [NoArgs EXCEPT !.email = email, !.amount = amount],
                  NoCtx, NoErr, NoCall, NoErr, NoRet)
  /\ UNCHANGED srv

\* UserClient.delegated_transfer
DelegatedTransfer(email, amount, token) ==
  /\ Len(ctx) < MaxCtx
  /\ ctx' = Append(ctx, DelegatedTransactionCtx(email, amount, token))
  /\ h' = Append(h, NoHist)
  /\ last' = Last("delegated_transfer", Len(ctx) + 1,
                  [NoArgs EXCEPT !.email = email, !.amount = amount, !.token = token],
                  NoCtx, NoErr, NoCall, NoErr, NoRet)
  /\ UNCHANGED srv

\* with ctx: ... entering the scope
Enter(c) ==
  /\ Calls < MaxCalls
  /\ \E o \in enter(ctx[c]) :
       /\ ctx' = [ctx EXCEPT ![c] = o.self]
       /\ srv' = o.srv2
       /\ h' = [h EXCEPT ![c] =
                 [@ EXCEPT !.calls = @ + 1,
                           !.enters = @ + 1,
                           !.acq = IF o.err = NoErr THEN o.self.transaction ELSE NoneTx,
                           !.made = IF Len(o.srv2) > Len(srv) THEN Len(o.srv2) ELSE 0,
                           !.raised = (o.err # NoErr),
                           !.confRet = NoneTx,
                           !.exited = FALSE,
                           !.owed = IF o.err = NoErr THEN @ \cup {o.self.transaction.id}
                                    ELSE @]]
       /\ last' = Last("enter", c, NoArgs, ctx[c], NoErr, o, o.inner, NoRet)

\* ctx.confirm() with _confirmed kept as an attribute of the class, shared by
\* every controller
Confirm_SharedFlag(c) ==
  /\ Calls < MaxCalls
  /\ \E o \in confirm(ctx[c]) :
       /\ ctx' = [d \in DOMAIN ctx |->
                    IF d = c THEN o.self
                    ELSE [ctx[d] EXCEPT !.confirmed = o.self.confirmed]]
       /\ srv' = o.srv2
       /\ h' = [h EXCEPT ![c] =
                 [@ EXCEPT !.calls = @ + 1,
                           !.confirmCalled = TRUE,
                           !.raised = (@ \/ o.err # NoErr),
                           !.confRet = IF o.err = NoErr THEN o.self.transaction ELSE @,
                           !.owed = @ \ AskedIn(o.reqs)]]
       /\ last' = Last("confirm", c, NoArgs, ctx[c], NoErr, o, o.inner, NoRet)

\* ctx.confirm()
Confirm(c) ==
  /\ Calls < MaxCalls
  /\ \E o \in confirm(ctx[c]) :
       /\ ctx' = [ctx EXCEPT ![c] = o.self]
       /\ srv' = o.srv2
       /\ h' = [h EXCEPT ![c] =
                 [@ EXCEPT !.calls = @ + 1,
                           !.confirmCalled = TRUE,
                           !.raised = (@ \/ o.err # NoErr),
                           !.confRet = IF o.err = NoErr THEN o.self.transaction ELSE @,
                           !.owed = @ \ AskedIn(o.reqs)]]
       /\ last' = Last("confirm", c, NoArgs, ctx[c], NoErr, o, o.inner, NoRet)

\* leaving the scope, normally or because the body raised
Exit(c, exc) ==
  /\ Calls < MaxCalls
  /\ \E o \in TransactionCtx__exit__(ctx[c]) :
       /\ ctx' = [ctx EXCEPT ![c] = o.self]
       /\ srv' = o.srv2
       /\ h' = [h EXCEPT ![c] =
                 [@ EXCEPT !.calls = @ + 1,
                           !.exited = TRUE,
                           !.raised = (@ \/ o.err # NoErr),
                           !.owed = @ \ AskedIn(o.reqs)]]
       /\ last' = Last("exit", c, NoArgs, ctx[c], exc, o, o.inner, NoRet)

\* a client method called directly by the caller
Direct(op, args, results) ==
  \E r \in results :
    /\ srv' = r.srv2
    /\ last' = Last(op, 0, args, NoCtx, NoErr, r, r.err, r.ret)
    /\ UNCHANGED <<ctx, h>>

CreateTransaction(email, amount) ==
  Direct("create_transaction", [NoArgs EXCEPT !.email = email, !.amount = amount],
         create_transaction(email, amount))

CreateDelegatedTransaction(email, amount, token) ==
  Direct("create_delegated_transaction",
         [NoArgs EXCEPT !.email = email, !.amount = amount, !.token = token],
         create_delegated_transaction(email, amount, token))

ConfirmTransaction(id) ==
  Direct("confirm_transaction", [NoArgs EXCEPT !.id = id], confirm_transaction(id))

CancelTransaction(id) ==
  Direct("cancel_transaction", [NoArgs EXCEPT !.id = id], cancel_transaction(id))

AdminCreateUser(email, password) ==
  Direct("AdminClient.create_user", [NoArgs EXCEPT !.email = email, !.password = password],
         AdminClient_create_user(email, password))

AddBalance(email, amount) ==
  Direct("add_balance", [NoArgs EXCEPT !.email = email, !.amount = amount],
         add_balance(email, amount))

GetUser(email) ==
  Direct("get_user", [NoArgs EXCEPT !.email = email], get_user(email))

GetAllUsers(format) ==
  Direct("get_all_users", [NoArgs EXCEPT !.format = format], get_all_users(format))

UserCreateUser(email, password) ==
  Direct("UserClient.create_user", [NoArgs EXCEPT !.email = email, !.password = password],
         UserClient_create_user(email, password))

GetUserInfo == Direct("get_user_info", NoArgs, get_user_info)

CreateTransactionToken(email) ==
  Direct("create_transaction_token", [NoArgs EXCEPT !.email = email],
         create_transaction_token(email))

GetTransactionHistory == Direct("get_transaction_history", NoArgs, get_transaction_history)

Next ==
  \/ \E e \in Emails, a \in CtxAmounts : Transfer(e, a)
  \/ \E e \in Emails, a \in CtxAmounts, t \in Tokens : DelegatedTransfer(e, a, t)
  \/ \E c \in 1..Len(ctx) : Enter(c)
  \/ \E c \in 1..Len(ctx) : Confirm(c)
  \/ \E c \in 1..Len(ctx), e \in Excs : Exit(c, ExcOf(e))

\* the calls a caller makes on the client itself
ClientNext ==
  \/ \E e \in Emails, a \in Amounts : CreateTransaction(e, a)
  \/ \E e \in Emails, a \in Amounts, t \in Tokens : CreateDelegatedTransaction(e, a, t)
  \/ \E id \in 1..MaxTx : ConfirmTransaction(id)
  \/ \E id \in 1..MaxTx : CancelTransaction(id)
  \/ \E e \in Emails, p \in Passwords : AdminCreateUser(e, p)
  \/ \E e \in Emails, a \in Amounts : AddBalance(e, a)
  \/ \E e \in Emails : GetUser(e)
  \/ \E f \in Formats : GetAllUsers(f)
  \/ \E e \in Emails, p \in Passwords : UserCreateUser(e, p)
  \/ GetUserInfo
  \/ \E e \in Emails : CreateTransactionToken(e)
  \/ GetTransactionHistory

\* the calls that validate an amount, made with an amount that is not
\* positive, directly and through a scope entry
NonPositive == {a \in Amounts : a <= 0}
AmountNext ==
  \/ \E e \in Emails, a \in CtxAmounts : Transfer(e, a)
  \/ \E e \in Emails, a \in CtxAmounts, t \in Tokens : DelegatedTransfer(e, a, t)
  \/ \E c \in 1..Len(ctx) : Enter(c)
  \/ \E e \in Emails, a \in NonPositive : CreateTransaction(e, a)
  \/ \E e \in Emails, a \in NonPositive, t \in Tokens : CreateDelegatedTransaction(e, a, t)
  \/ \E e \in Emails, a \in NonPositive : AddBalance(e, a)

\* the calls on delegated controllers only
DelegatedNext ==
  \/ \E e \in Emails, a \in CtxAmounts, t \in Tokens : DelegatedTransfer(e, a, t)
  \/ \E c \in 1..Len(ctx) : Enter(c)
  \/ \E c \in 1..Len(ctx) : Confirm(c)
  \/ \E c \in 1..Len(ctx), e \in Excs : Exit(c, ExcOf(e))

\* the transaction methods of UserClient called directly
TransactionNext ==
  \/ \E e \in Emails, a \in Amounts : CreateTransaction(e, a)
  \/ \E e \in Emails, a \in Amounts, t \in Tokens : CreateDelegatedTransaction(e, a, t)
  \/ \E id \in 1..MaxTx : ConfirmTransaction(id)
  \/ \E id \in 1..MaxTx : CancelTransaction(id)

\* the methods that create, credit and read user accounts
AccountNext ==
  \/ \E e \in Emails, p \in Passwords : AdminCreateUser(e, p)
  \/ \E e \in Emails, a \in Amounts : AddBalance(e, a)
  \/ \E e \in Emails : GetUser(e)
  \/ \E f \in Formats : GetAllUsers(f)
  \/ \E e \in Emails, p \in Passwords : UserCreateUser(e, p)
  \/ GetUserInfo

\* two controllers obtained from the same client, by transfer or
\* delegated_transfer, and not entered yet
OpenableCtx ==
  {TransactionCtx(e, a) : e \in Emails, a \in {b \in CtxAmounts : b > 0}}
  \cup {DelegatedTransactionCtx(e, a, t) :
          e \in Emails, a \in {b \in CtxAmounts : b > 0}, t \in Tokens}
PairInit ==
  /\ ctx \in {<<x, y>> : x \in OpenableCtx, y \in OpenableCtx}
  /\ srv = << >>
  /\ h = <<NoHist, NoHist>>
  /\ last = Last("init", 0, NoArgs, NoCtx, NoErr, NoCall, NoErr, NoRet)

\* the calls on the two controllers, in any interleaving
PairNext ==
  \/ \E c \in 1..Len(ctx) : Enter(c)
  \/ \E c \in 1..Len(ctx) : Confirm(c)
  \/ \E c \in 1..Len(ctx), e \in Excs : Exit(c, ExcOf(e))

Spec == Init /\ [][Next]_vars
ClientSpec == Init /\ [][ClientNext]_vars
AmountSpec == Init /\ [][AmountNext]_vars
DelegatedSpec == Init /\ [][DelegatedNext]_vars
TransactionSpec == Init /\ [][TransactionNext]_vars
AccountSpec == Init /\ [][AccountNext]_vars
PairSpec == PairInit /\ [][PairNext]_vars

\* ------------------------------------------------------------ vocabulary
CtxOps == {"enter", "confirm", "exit"}
CancelRequest(id) == [Post("/transaction/cancel") EXCEPT !.transactionId = id]
IsCancel(req) == req.path = "/transaction/cancel"
CancelsIn(reqs) == {i \in DOMAIN reqs : IsCancel(reqs[i])}
\* the last call was op on a controller
On(op) == last.op = op /\ last.c \in 1..Len(ctx)

\* ------------------------------------------------------------------ C1
\* C1: on a controller entered once, whose acquisition succeeded and on
\* which confirm() was never called, __exit__ issues exactly one request,
\* a cancel_transaction request carrying the id of the transaction that the
\* acquisition call returned.
C1_ExitCancelsOnce ==
  (On("exit") /\ h[last.c].enters = 1 /\ h[last.c].acq # NoneTx
              /\ ~h[last.c].confirmCalled)
    => last.reqs = <<CancelRequest(h[last.c].acq.id)>>

C1_Witness ==
  /\ On("exit") /\ h[last.c].enters = 1 /\ h[last.c].acq # NoneTx
  /\ ~h[last.c].confirmCalled
  /\ last.err = NoErr
  /\ ctx[last.c].transaction.status = "CANCELLED"

\* ------------------------------------------------------------------ C2
\* C2: when the acquisition succeeded and confirm() returned successfully in
\* the scope, __exit__ issues no cancel_transaction request and the stored
\* transaction is still the one confirm_transaction returned.
C2_ConfirmedExitIsNoOp ==
  (On("exit") /\ h[last.c].acq # NoneTx /\ h[last.c].confRet # NoneTx)
    => /\ CancelsIn(last.reqs) = {}
       /\ last.reqs = << >>
       /\ last.err = NoErr
       /\ ctx[last.c].transaction = h[last.c].confRet

C2_Witness ==
  /\ On("exit") /\ h[last.c].acq # NoneTx /\ h[last.c].confRet # NoneTx
  /\ ctx[last.c].transaction.status = "COMPLETED"
  /\ ctx[last.c].transaction.id = h[last.c].acq.id

C4_ConfirmWithoutTransaction ==
  (On("confirm") /\ last.pre.transaction = NoneTx)
    => /\ last.err = RuntimeError
       /\ last.reqs = << >>
       /\ ~ctx[last.c].confirmed
       /\ ctx[last.c] = last.pre

C4_Witness ==
  /\ On("confirm") /\ last.pre.transaction = NoneTx
  /\ h[last.c].enters > 0 /\ h[last.c].raised
  /\ last.err = RuntimeError

\* ------------------------------------------------------------------ C5
\* C5: for every amount <= 0, create_transaction,
\* create_delegated_transaction and add_balance raise ValueError and issue no
\* request; entering a scope constructed with such an amount raises
\* ValueError, issues no request and stores no transaction.
AmountOps == {"create_transaction", "create_delegated_transaction", "add_balance"}
C5_NonPositiveAmountRejected ==
  /\ (last.op \in AmountOps /\ last.args.amount <= 0)
       => (last.err = ValueError /\ last.reqs = << >>)
  /\ (On("enter") /\ last.pre.amount <= 0)
       => /\ last.err = ValueError
          /\ last.reqs = << >>
          /\ ctx[last.c].transaction = NoneTx

C5_Witness ==
  /\ On("enter") /\ last.pre.amount <= 0
  /\ last.pre.kind = "DelegatedTransactionCtx"
  /\ last.err = ValueError
  /\ last.reqs = << >>

\* ------------------------------------------------------------------ C6
\* C6: get_all_users called with a format other than "list" or "dict" raises
\* a local validation error (ValueError) before any request is made.
C6_InvalidFormatRejected ==
  (last.op = "get_all_users" /\ last.args.format \notin {"list", "dict"})
    => (last.err = ValueError /\ last.reqs = << >>)

\* ------------------------------------------------------------------ C7
\* C7: when __exit__ runs with the confirmed flag false and a stored
\* transaction and cancel_transaction fails, __exit__ raises
\* ServiceException(500, "Failed to cancel transaction"), and that is what
\* reaches the caller, also when the body had raised an exception.
C7_CancelFailureRaises ==
  (On("exit") /\ ~last.pre.confirmed /\ last.pre.transaction # NoneTx
              /\ last.inner # NoErr)
    => /\ last.err = ServiceException(500, FailedCancelBody)
       /\ last.prop = last.err

C7_Witness ==
  /\ On("exit") /\ ~last.pre.confirmed /\ last.pre.transaction # NoneTx
  /\ last.inner # NoErr
  /\ last.exc = BodyError
  /\ last.prop.type = "ServiceException"

\* ------------------------------------------------------------------ C8
\* C8: in every network-backed client operation, a response with a
\* non-success status makes the operation raise a ServiceException with
\* that response's status code and body, whatever the body is.
C8_NonSuccessIsServiceError ==
  (last.op \notin CtxOps /\ last.response # NoResponse /\ ~ok(last.response))
    => last.err = ServiceException(last.response.status_code, last.response.body)

\* ------------------------------------------------------------------ C9
\* C9 (as claimed): a transport failure during any request, the cancel
\* request of scope release included, reaches the caller as that failure.
C9_TransportFailureUnchanged ==
  (last.fail \in TransportErrors) => (last.err = last.fail /\ last.prop = last.fail)

\* C9 (amended): a transport failure during a request reaches the caller of
\* the client method, of __enter__ and of confirm() as that same failure;
\* during the cancel request of scope release it leaves cancel_transaction
\* unchanged and __exit__ replaces it by
\* ServiceException(500, "Failed to cancel transaction").
C9_TransportFailureAmended ==
  (last.fail \in TransportErrors)
    => /\ last.inner = last.fail
       /\ last.op # "exit" => (last.err = last.fail /\ last.prop = last.fail)
       /\ last.op = "exit" => /\ last.err = ServiceException(500, FailedCancelBody)
                              /\ last.prop = last.err

C9_Witness ==
  /\ On("exit") /\ last.fail = ConnectionError
  /\ last.inner = ConnectionError
  /\ last.err.type = "ServiceException"

\* ------------------------------------------------------------------ C10
\* C10 (as claimed): every ServiceException that reaches a caller, the one
\* raised by scope release included, carries the status code and body of
\* the response that caused it.
C10_ServiceErrorCarriesResponse ==
  (last.err.type = "ServiceException")
    => /\ last.response # NoResponse /\ ~ok(last.response)
       /\ last.err = ServiceException(last.response.status_code, last.response.body)

\* C10 (amended): a ServiceException raised by a client method, by
\* __enter__ or by confirm() carries the status code and body of the
\* non-success response that caused it; the one raised by scope release
\* always carries 500 and "Failed to cancel transaction".
C10_ServiceErrorAmended ==
  /\ (last.inner.type = "ServiceException")
       => /\ last.response # NoResponse /\ ~ok(last.response)
          /\ last.inner = ServiceException(last.response.status_code, last.response.body)
  /\ (last.err.type = "ServiceException")
       => IF last.op = "exit" THEN last.err = ServiceException(500, FailedCancelBody)
          ELSE last.err = last.inner

C10_Witness ==
  /\ On("exit") /\ last.response.status_code = 404
  /\ last.inner = ServiceException(404, last.response.body)
  /\ last.err = ServiceException(500, FailedCancelBody)


\* ------------------------------------------------------------------ C11
ConfirmRequest(id) == [Post("/transaction/confirm") EXCEPT !.transactionId = id]
PathOf(op) ==
  CASE op = "enter" -> "/transaction/create"
    [] op = "confirm" -> "/transaction/confirm"
    [] op = "exit" -> "/transaction/cancel"
    [] op \in {"create_transaction", "create_delegated_transaction"} -> "/transaction/create"
    [] op = "confirm_transaction" -> "/transaction/confirm"
    [] op = "cancel_transaction" -> "/transaction/cancel"
    [] op \in {"AdminClient.create_user", "UserClient.create_user"} -> "/user/create"
    [] op = "add_balance" -> "/user/add-balance"
    [] op = "get_user" -> "/user/{email}"
    [] op = "get_all_users" -> "/users"
    [] op = "get_user_info" -> "/user/my-info"
    [] op = "create_transaction_token" -> "/token/create"
    [] op = "get_transaction_history" -> "/transaction/history"
    [] OTHER -> ""

\* C11: no call retries. Every call, whether it returns or raises, issues at
\* most one request; __enter__ issues at most one create request, confirm()
\* at most one confirm request and __exit__ at most one cancel request, and
\* a call that got an answer or a transport failure issued exactly one.
C11_NoRetry ==
  /\ Len(last.reqs) <= 1
  /\ \A i \in DOMAIN last.reqs : last.reqs[i].path = PathOf(last.op)
  /\ (last.fail # NoErr \/ last.response # NoResponse) => Len(last.reqs) = 1

C11_Witness ==
  /\ On("exit") /\ last.fail = Timeout
  /\ last.err # NoErr
  /\ last.reqs = <<CancelRequest(last.pre.transaction.id)>>


\* ------------------------------------------------------------------ C12
\* the service or a gateway in front of it answered with a non-success status
Rejected == last.response # NoResponse /\ ~ok(last.response)

\* C12: every confirm() call made while the controller holds a stored
\* transaction, also when the confirmed flag is already true or the scope
\* has exited and cancelled, issues one confirm_transaction request with the
\* stored transaction's id, and a rejection of that request reaches the
\* caller as a ServiceException.
C12_ConfirmForwarded ==
  (On("confirm") /\ last.pre.transaction # NoneTx)
    => /\ last.reqs = <<ConfirmRequest(last.pre.transaction.id)>>
       /\ Rejected => last.err.type = "ServiceException"


\* ------------------------------------------------------------------ C13
\* the snapshot t may be replaced by the snapshot u
StatusStep(t, u) ==
  (t # NoneTx /\ u.id = t.id)
    => /\ t.status = "COMPLETED" => u.status = "COMPLETED"
       /\ t.status = "CANCELLED" => u.status = "CANCELLED"

\* C13: in every step (an enter, confirm or exit call on a controller), the
\* snapshot a controller stores for a transaction id that it already held
\* keeps the status COMPLETED if it was COMPLETED and CANCELLED if it was
\* CANCELLED: the stored status moves only PENDING -> COMPLETED or
\* PENDING -> CANCELLED.
C13_StoredStatusMonotonic ==
  [][\A c \in 1..Len(ctx) : StatusStep(ctx[c].transaction, ctx'[c].transaction)]_vars

\* a confirm() on a controller holding a CANCELLED snapshot was forwarded and
\* the snapshot is still CANCELLED
C13_Witness ==
  /\ On("confirm") /\ last.pre.transaction.status = "CANCELLED"
  /\ Len(last.reqs) = 1
  /\ ctx[last.c].transaction.id = last.pre.transaction.id
  /\ ctx[last.c].transaction.status = "CANCELLED"


\* ------------------------------------------------------------------ C14
\* the direct controller in the state of the delegated controller self
Twin(self) == [self EXCEPT !.kind = "TransactionCtx", !.token = "None"]
\* what a confirm() or __exit__ call did: its requests, the answer, the
\* error raised and the transaction and flag it left
Release(o) ==
  [reqs |-> o.reqs, srv2 |-> o.srv2, fail |-> o.fail, response |-> o.response,
   err |-> o.err, transaction |-> o.self.transaction, confirmed |-> o.self.confirmed]
DelegatedCreateRequest(self) ==
  [Post("/transaction/create") EXCEPT
     !.senderEmail = self.email, !.recipientEmail = OwnEmail,
     !.amount = self.amount, !.token = self.token]

C15_CreateRequestParties ==
  /\ (last.op = "create_transaction" /\ last.args.amount > 0)
       => last.reqs = <<[Post("/transaction/create") EXCEPT
                           !.senderEmail = OwnEmail,
                           !.recipientEmail = last.args.email,
                           !.amount = last.args.amount]>>
  /\ (last.op = "create_transaction" /\ last.reqs # << >>)
       => last.reqs[1].token = "None"
  /\ (last.op = "create_delegated_transaction" /\ last.args.amount > 0)
       => last.reqs = <<[Post("/transaction/create") EXCEPT
                           !.senderEmail = last.args.email,
                           !.recipientEmail = OwnEmail,
                           !.amount = last.args.amount,
                           !.token = last.args.token]>>

C15_Witness ==
  /\ last.op = "create_delegated_transaction" /\ last.args.token \in Tokens
  /\ last.err = NoErr
  /\ last.ret.transaction.recipientEmail = OwnEmail
  /\ last.ret.transaction.senderEmail = last.args.email
  /\ last.ret.transaction.senderEmail # OwnEmail


\* ------------------------------------------------------------------ C16
EmailsOf(users) == {users[i].email : i \in DOMAIN users}
\* what get_all_users("list") returns for the answer that the last call got
ListsForSameResponse ==
  {r \in get_all_users("list") : r.fail = NoErr /\ r.response = last.response}

\* C16: when get_all_users("dict") returns, get_all_users("list") returns
\* for the same response, the key set of the mapping is exactly the set of
\* emails of the list's users, each key maps to a user of the list with that
\* email, and when the list's emails are distinct every user of the list is
\* the value of its email.
C16_DictMatchesList ==
  (last.op = "get_all_users" /\ last.args.format = "dict" /\ last.err = NoErr)
    => /\ ListsForSameResponse # {}
       /\ \A r \in ListsForSameResponse :
            /\ r.err = NoErr /\ r.ret.kind = "list"
            /\ DOMAIN last.ret.dict = EmailsOf(r.ret.users)
            /\ \A k \in DOMAIN last.ret.dict :
                 \E i \in DOMAIN r.ret.users :
                   r.ret.users[i].email = k /\ last.ret.dict[k] = r.ret.users[i]
            /\ (\A i, j \in DOMAIN r.ret.users :
                  r.ret.users[i].email = r.ret.users[j].email => i = j)
                 => \A i \in DOMAIN r.ret.users :
                      last.ret.dict[r.ret.users[i].email] = r.ret.users[i]

C16_Witness ==
  /\ last.op = "get_all_users" /\ last.args.format = "dict" /\ last.err = NoErr
  /\ DOMAIN last.ret.dict = {"bob", "carol"}
  /\ last.ret.dict["carol"] = UserOf("carol")


\* ------------------------------------------------------------------ C17
CreateUserOps == {"AdminClient.create_user", "UserClient.create_user"}

\* C17: create_user (AdminClient and UserClient), when it returns, returns
\* the caller's password for every string the caller supplied, and the
\* password of the response only when the caller omitted the password (None).
C17_SuppliedPasswordReturned ==
  (last.op \in CreateUserOps /\ last.err = NoErr)
    => /\ last.args.password # "None" => last.ret.password = last.args.password
       /\ last.args.password = "None" => last.ret.password = last.response.body.password


\* ------------------------------------------------------------------ C18
\* C18: when an acquisition succeeds, the transaction that the creation call
\* (create_transaction, or create_delegated_transaction on a delegated
\* controller) returned, which __enter__ stores as it is, is the one the
\* response carried and has status PENDING and no resolvedBy.
C18_CreatedIsPending ==
  (On("enter") /\ last.err = NoErr)
    => /\ ctx[last.c].transaction # NoneTx
       /\ ctx[last.c].transaction = last.response.body.transaction
       /\ ctx[last.c].transaction.status = "PENDING"
       /\ ctx[last.c].transaction.resolvedBy = "None"

C18_Witness ==
  /\ On("enter") /\ last.pre.kind = "TransactionCtx" /\ last.err = NoErr
  /\ ctx[last.c].transaction.status = "PENDING"
  /\ ctx[last.c].transaction.senderEmail = OwnEmail
  /\ srv[ctx[last.c].transaction.id] = ctx[last.c].transaction


\* ------------------------------------------------------------------ C19
\* C19: for every entry of a controller, also of one that was used before
\* or is still open, an __exit__ of that scope without a successful confirm
\* in it issues a cancel_transaction request for the transaction that this
\* entry acquired, and once a scope has exited every transaction that an
\* entry of the controller acquired has been the subject of a confirm or a
\* cancel request.
C19_ReuseKeepsScopeBalanced ==
  /\ (On("exit") /\ h[last.c].acq # NoneTx /\ h[last.c].confRet = NoneTx)
       => last.reqs = <<CancelRequest(h[last.c].acq.id)>>
  /\ \A c \in 1..Len(ctx) : h[c].exited => h[c].owed = {}


\* ------------------------------------------------------------------ C20
\* C20: when __exit__ runs with the confirmed flag false and a stored
\* transaction and cancel_transaction returns, __exit__ raises nothing and
\* the stored transaction is the one that the cancel response carried: the
\* same id, with status CANCELLED.
C20_CancelResultStored ==
  (On("exit") /\ ~last.pre.confirmed /\ last.pre.transaction # NoneTx
              /\ last.inner = NoErr)
    => /\ last.err = NoErr
       /\ ctx[last.c].transaction = last.response.body.transaction
       /\ ctx[last.c].transaction.id = last.pre.transaction.id
       /\ ctx[last.c].transaction.status = "CANCELLED"

C20_Witness ==
  /\ On("exit") /\ ~last.pre.confirmed /\ last.inner = NoErr
  /\ last.pre.transaction.status = "PENDING"
  /\ last.pre.transaction.resolvedBy = "None"
  /\ ctx[last.c].transaction.status = "CANCELLED"
  /\ ctx[last.c].transaction.resolvedBy # "None"
  /\ last.exc = BodyError /\ last.prop = BodyError


\* ------------------------------------------------------------------ C21
\* the last call was a confirm() on an open scope (a stored transaction, the
\* confirmed flag false) whose confirm_transaction call failed
ConfirmFailed ==
  /\ On("confirm") /\ ~last.pre.confirmed /\ last.pre.transaction # NoneTx
  /\ last.inner # NoErr

\* C21: when confirm_transaction fails during confirm() on an open scope,
\* confirm() raises that same error, the confirmed flag is still false and
\* the stored transaction is the one stored before; and an __exit__ of that
\* controller that follows issues exactly one request, a cancel_transaction
\* request with that transaction's id.
C21_FailedConfirmLeavesScopeOpen ==
  /\ [](ConfirmFailed
          => /\ last.err = last.inner /\ last.prop = last.inner
             /\ ~ctx[last.c].confirmed
             /\ ctx[last.c].transaction = last.pre.transaction)
  /\ [][(ConfirmFailed /\ last'.op = "exit" /\ last'.c = last.c)
          => last'.reqs = <<CancelRequest(last.pre.transaction.id)>>]_vars

\* a scope of three calls, enter, a confirm() that raised and an __exit__
\* that raised nothing, ended with the transaction cancelled
C21_Witness ==
  /\ On("exit") /\ h[last.c].calls = 3 /\ h[last.c].enters = 1
  /\ h[last.c].acq # NoneTx /\ h[last.c].confirmCalled
  /\ h[last.c].confRet = NoneTx /\ h[last.c].raised
  /\ last.err = NoErr
  /\ last.reqs = <<CancelRequest(h[last.c].acq.id)>>
  /\ ctx[last.c].transaction.status = "CANCELLED"


C23_BodyExceptionNotSuppressed ==
  (On("exit") /\ last.exc # NoErr /\ last.err = NoErr)
    => /\ last.prop = last.exc
       /\ (~last.pre.confirmed /\ last.pre.transaction # NoneTx)
            => last.reqs = <<CancelRequest(last.pre.transaction.id)>>
       /\ last.pre.confirmed => last.reqs = << >>

C23_Witness ==
  /\ On("exit") /\ last.exc = BodyError /\ last.err = NoErr
  /\ last.pre.confirmed /\ last.pre.transaction.status = "COMPLETED"
  /\ last.reqs = << >>
  /\ last.prop = BodyError


\* ------------------------------------------------------------------ C24
\* the transaction ids that the requests reqs carry
IdsIn(reqs) == {reqs[i].transactionId : i \in DOMAIN reqs}

\* C24: with two controllers of the same client in use at the same time,
\* under every interleaving of their enter, confirm and exit calls: the
\* transactions that the two controllers acquired are distinct; a confirm or
\* cancel request of a controller whose acquisition succeeded carries the id
\* of the transaction that this acquisition returned, which is the one the
\* controller stores, and never the id stored by the other controller; and
\* a call on one controller leaves the stored transaction and the confirmed
\* flag of the other controller as they were.
C24_ScopesIsolated ==
  /\ [](/\ \A c, d \in 1..Len(ctx) :
             (c # d /\ h[c].acq # NoneTx /\ h[d].acq # NoneTx)
               => h[c].acq.id # h[d].acq.id
        /\ \A c \in 1..Len(ctx) :
             h[c].acq # NoneTx => ctx[c].transaction.id = h[c].acq.id
        /\ ((On("confirm") \/ On("exit")) /\ h[last.c].acq # NoneTx)
             => /\ IdsIn(last.reqs) \subseteq {h[last.c].acq.id}
                /\ \A d \in 1..Len(ctx) :
                     (d # last.c /\ ctx[d].transaction # NoneTx)
                       => ctx[d].transaction.id \notin IdsIn(last.reqs))
  /\ [][\A d \in 1..Len(ctx) :
          d # last'.c
            => /\ ctx'[d].transaction = ctx[d].transaction
               /\ ctx'[d].confirmed = ctx[d].confirmed]_vars

\* both scopes open at once, the second confirmed and then the first exited:
\* the first transaction is cancelled, the second stays completed
C24_Witness ==
  /\ Len(ctx) = 2 /\ On("exit") /\ last.c = 1
  /\ last.reqs = <<CancelRequest(h[1].acq.id)>>
  /\ ctx[1].transaction.status = "CANCELLED" /\ ~ctx[1].confirmed
  /\ ctx[2].transaction.status = "COMPLETED" /\ ctx[2].confirmed
  /\ ctx[2].transaction.id = h[2].acq.id
  /\ h[2].acq.id # h[1].acq.id
  /\ ~h[2].exited

====
